---- MODULE Spec2Model ----
(***************************************************************************)
(* Batch fetcher of per-symbol metadata (stock_info.py).                   *)
(*                                                                         *)
(* Two variants of the script exist: the extended one (src/stock_info.py), *)
(* which adds the last four dividends and tells HTTPError from any other   *)
(* exception, and the basic one (src/src/stock_info.py).  The variable     *)
(* `variant` says which script is running.                                 *)
(*                                                                         *)
(* Python dicts are modelled as association lists (sequences of            *)
(* <<key, value>> pairs in insertion order), JSON values as records        *)
(* [t, s, n, d] (type tag, string, number, dict).                          *)
(***************************************************************************)
EXTENDS Integers, Sequences, FiniteSets, TLC

\* ------------------------------------------------------------------ bounds
MaxArgLen == 2       \* longest command-line argument explored
MaxThreads == 2      \* most symbols (threads) in one run
MaxHist == 5         \* longest dividend history the provider returns

VARIABLES
    variant,     \* "extended" (src/stock_info.py) or "basic" (src/src/stock_info.py)
    argv,        \* sys.argv[1], a sequence of characters
    symbols,     \* symbols = sys.argv[1].split(",")
    results,     \* results = {}  (association list)
    lock,        \* lock = threading.Lock(): 0 when free, else the holder's index
    pc,          \* position of each thread of `threads`
    info,        \* each worker's local `info`
    exc,         \* each worker's caught exception `e`
    history,     \* the dividend series the provider returned to each worker
    stderr,      \* what was written to sys.stderr
    stdout,      \* what was printed
    mainpc,      \* position of the main flow
    mi,          \* index of the main flow's running for-loop
    exitStatus,  \* -1 while running, then the exit status of the process
    lockOrder    \* history: thread indices in the order they acquired the lock

vars == <<variant, argv, symbols, results, lock, pc, info, exc, history, stderr, stdout,
          mainpc, mi, exitStatus, lockOrder>>

\* ------------------------------------------------------------ Python values
Chars == {"A", ","}

JStr(x) == [t |-> "str", s |-> x, n |-> 0, d |-> <<>>]
JNum(x) == [t |-> "num", s |-> "", n |-> x, d |-> <<>>]
JDict(x) == [t |-> "dict", s |-> "", n |-> 0, d |-> x]

Range(f) == {f[i] : i \in DOMAIN f}

\* keys of a dict, as a set and in insertion order
DictKeys(dict) == {dict[i][1] : i \in DOMAIN dict}
DictKeySeq(dict) == [i \in DOMAIN dict |-> dict[i][1]]
DictGet(dict, k) == dict[CHOOSE i \in DOMAIN dict : dict[i][1] = k][2]

\* dict[k] = v that always appends an item: a key written twice appears twice
DictSet_AlwaysAppend(dict, k, v) == Append(dict, <<k, v>>)

\* dict.setdefault(k, v): the first value written under a key stays
DictSet_KeepFirst(dict, k, v) ==
    IF k \in DictKeys(dict) THEN dict ELSE Append(dict, <<k, v>>)

\* a mapping that puts a new key in front of the older ones
DictSet_Prepend(dict, k, v) ==
    IF k \in DictKeys(dict)
    THEN [i \in DOMAIN dict |-> IF dict[i][1] = k THEN <<k, v>> ELSE dict[i]]
    ELSE <<(<<k, v>>)>> \o dict

\* dict[k] = v : an existing key keeps its position, a new key is appended
DictSet(dict, k, v) ==
    IF k \in DictKeys(dict)
    THEN [i \in DOMAIN dict |-> IF dict[i][1] = k THEN <<k, v>> ELSE dict[i]]
    ELSE Append(dict, <<k, v>>)

\* a split that drops empty fields, as str.split() without a separator does
\* for blank input
RECURSIVE SplitFrom_DropEmpty(_, _, _, _)
SplitFrom_DropEmpty(s, i, cur, acc) ==
    IF i > Len(s) THEN (IF cur = "" THEN acc ELSE Append(acc, cur))
    ELSE IF s[i] = ","
         THEN SplitFrom_DropEmpty(s, i + 1, "", IF cur = "" THEN acc ELSE Append(acc, cur))
         ELSE SplitFrom_DropEmpty(s, i + 1, cur \o s[i], acc)

\* str.split(","): one field per comma plus one, empty fields kept
RECURSIVE SplitFrom(_, _, _, _)
SplitFrom(s, i, cur, acc) ==
    IF i > Len(s) THEN Append(acc, cur)
    ELSE IF s[i] = "," THEN SplitFrom(s, i + 1, "", Append(acc, cur))
    ELSE SplitFrom(s, i + 1, cur \o s[i], acc)

Split(s) == SplitFrom(s, 1, "", <<>>)

\* ----------------------------------------------------------- exceptions
NoExc == [cls |-> "None", args |-> <<>>]

\* what the provider client may raise: an HTTPError (always built with a
\* message), or any other exception, with or without arguments
ExcSet == {[cls |-> "HTTPError", args |-> <<"404 Not Found">>],
           [cls |-> "Exception", args |-> <<"No data found">>],
           [cls |-> "Exception", args |-> <<>>]}

\* isinstance(e, c): HTTPError derives from Exception
IsInstance(e, c) ==
    \/ e.cls = c
    \/ e.cls = "HTTPError" /\ c = "Exception"

\* str(e) of an exception: "" without arguments, the argument when there is one
Str(e) == IF e.args = <<>> THEN "" ELSE e.args[1]

\* a worker without the catch-all clause: only HTTPError is handled
Handler_NoCatchAll(v, e) ==
    IF v = "extended" /\ IsInstance(e, "HTTPError") THEN "http" ELSE "uncaught"

\* the HTTPError clause present in the basic script as well
Handler_HttpClauseInBoth(v, e) ==
    IF IsInstance(e, "HTTPError") THEN "http"
    ELSE IF IsInstance(e, "Exception") THEN "generic"
    ELSE "uncaught"

\* the except clause that takes e: `except HTTPError` exists only in the
\* extended variant, `except Exception` in both; "uncaught" leaves the thread
Handler(v, e) ==
    IF v = "extended" /\ IsInstance(e, "HTTPError") THEN "http"
    ELSE IF IsInstance(e, "Exception") THEN "generic"
    ELSE "uncaught"

\* a handler that writes the [ERROR] tag in both clauses
ErrorLine_OneTag(v, sym, e) == "[ERROR] Symbol " \o sym \o ": " \o Str(e) \o "\n"

\* the line written to sys.stderr by the handler
ErrorLine(v, sym, e) ==
    IF Handler(v, e) = "http"
    THEN "[HTTP ERROR] Symbol " \o sym \o ": " \o Str(e) \o "\n"
    ELSE "[ERROR] Symbol " \o sym \o ": " \o Str(e) \o "\n"

\* the message without the class prefix in the HTTPError clause
ErrorMessage_NoPrefix(v, e) == Str(e)

\* the message stored under "error"
ErrorMessage(v, e) ==
    IF Handler(v, e) = "http" THEN "HTTPError: " \o Str(e) ELSE Str(e)

\* {"error": ...}
ErrorObject(v, e) == << <<"error", JStr(ErrorMessage(v, e))>> >>

\* ------------------------------------------------------------- provider
\* ticker.info of a symbol the provider knows: a provider-defined record
InfoRecord(sym) == << <<"symbol", JStr(sym)>>, <<"currency", JStr("USD")>> >>

\* the i-th ex-dividend date of a history, one per quarter, as a Timestamp
Timestamp(i) ==
    [year |-> 2023 + ((i - 1) \div 4), month |-> 2 + 3 * ((i - 1) % 4), day |-> 7 + i]

\* ticker.dividends with n payments, in the provider's chronological order
DividendHistory(n) == [i \in 1..n |-> [date |-> Timestamp(i), amount |-> 20 + i]]

Pad2(x) == IF x < 10 THEN "0" \o ToString(x) ELSE ToString(x)

\* date.strftime("%Y-%m-%d")
Strftime(ts) == ToString(ts.year) \o "-" \o Pad2(ts.month) \o "-" \o Pad2(ts.day)

\* float(amount): the amounts are floats already, the value is kept
Float(x) == x

TailCount == 4

\* Series.head(k): the first k rows instead of the last
SeriesTail_Head(series, k) ==
    IF k = 0 \/ Len(series) = 0 THEN <<>>
    ELSE SubSeq(series, 1, IF Len(series) > k THEN k ELSE Len(series))

\* Series.tail(k): the last k rows, all of them when there are fewer
SeriesTail(series, k) ==
    IF k = 0 \/ Len(series) = 0 THEN <<>>
    ELSE SubSeq(series, IF Len(series) > k THEN Len(series) - k + 1 ELSE 1, Len(series))

\* {date.strftime(...): float(amount) for date, amount in dividends.items()}
RECURSIVE DictComp(_, _, _)
DictComp(series, i, acc) ==
    IF i > Len(series) THEN acc
    ELSE DictComp(series, i + 1,
                  DictSet(acc, Strftime(series[i].date), JNum(Float(series[i].amount))))

DividendsDict(series) == DictComp(SeriesTail(series, TailCount), 1, <<>>)

\* the history lengths explored: none, fewer than tail() asks for, exactly
\* as many, and more
HistLens == {0, TailCount - 1, TailCount, MaxHist}

\* ---------------------------------------------------------- json.dumps
RECURSIVE JsonDumps(_)
RECURSIVE JsonItems(_, _)
JsonItems(dict, i) ==
    IF i > Len(dict) THEN ""
    ELSE (IF i > 1 THEN ", " ELSE "")
         \o "\"" \o dict[i][1] \o "\": " \o JsonDumps(dict[i][2])
         \o JsonItems(dict, i + 1)

JsonDumps(x) ==
    IF x.t = "str" THEN "\"" \o x.s \o "\""
    ELSE IF x.t = "num" THEN ToString(x.n)
    ELSE "{" \o JsonItems(x.d, 1) \o "}"

\* ------------------------------------------------------------------ Init
Threads == 1..Len(symbols)

NumCommas(s) == Cardinality({i \in DOMAIN s : s[i] = ","})

ArgvSet ==
    {s \in UNION {[1..n -> Chars] : n \in 0..MaxArgLen} : NumCommas(s) < MaxThreads}

Init ==
    /\ variant \in {"extended", "basic"}
    /\ argv \in ArgvSet
    /\ symbols = Split(argv)
    /\ results = <<>>
    /\ lock = 0
    /\ pc = [i \in 1..Len(symbols) |-> "created"]
    /\ info = [i \in 1..Len(symbols) |-> <<>>]
    /\ exc = [i \in 1..Len(symbols) |-> NoExc]
    /\ history = [i \in 1..Len(symbols) |-> <<>>]
    /\ stderr = <<>>
    /\ stdout = <<>>
    /\ mainpc = "start"
    /\ mi = 1
    /\ exitStatus = -1
    /\ lockOrder = <<>>

\* --------------------------------------------------------------- workers
\* an exception e raised inside the try block of worker i
Raise(i, e) ==
    IF Handler(variant, e) = "uncaught"
    THEN /\ pc' = [pc EXCEPT ![i] = "crashed"]
         /\ exc' = exc
    ELSE /\ pc' = [pc EXCEPT ![i] = "log"]
         /\ exc' = [exc EXCEPT ![i] = e]

\* ticker = yf.Ticker(symbol, session=session); info = ticker.info
FetchInfo(i) ==
    /\ pc[i] = "fetch"
    /\ \/ /\ info' = [info EXCEPT ![i] = InfoRecord(symbols[i])]
          /\ pc' = [pc EXCEPT ![i] = IF variant = "extended" THEN "dividends" ELSE "acquire"]
          /\ exc' = exc
       \/ /\ \E e \in ExcSet : Raise(i, e)
          /\ info' = info
       \/ /\ pc' = [pc EXCEPT ![i] = "hung"]
          /\ UNCHANGED <<info, exc>>
    /\ UNCHANGED <<variant, argv, symbols, history, results, lock, stderr, stdout, mainpc, mi,
                   exitStatus, lockOrder>>

\* dividends = ticker.dividends.tail(4); dividends_dict = {...};
\* info["last_4_dividends"] = dividends_dict
FetchDividends(i) ==
    /\ pc[i] = "dividends"
    /\ \/ /\ \E n \in HistLens :
                /\ history' = [history EXCEPT ![i] = DividendHistory(n)]
                /\ info' = [info EXCEPT ![i] =
                               DictSet(info[i], "last_4_dividends",
                                       JDict(DividendsDict(DividendHistory(n))))]
          /\ pc' = [pc EXCEPT ![i] = "acquire"]
          /\ exc' = exc
       \/ /\ \E e \in ExcSet : Raise(i, e)
          /\ UNCHANGED <<info, history>>
       \/ /\ pc' = [pc EXCEPT ![i] = "hung"]
          /\ UNCHANGED <<info, exc, history>>
    /\ UNCHANGED <<variant, argv, symbols, results, lock, stderr, stdout, mainpc, mi,
                   exitStatus, lockOrder>>

\* sys.stderr.write(...); traceback.print_exc(file=sys.stderr)
LogError(i) ==
    /\ pc[i] = "log"
    /\ stderr' = Append(stderr, [line |-> ErrorLine(variant, symbols[i], exc[i]),
                                 traceback |-> exc[i].cls])
    /\ pc' = [pc EXCEPT ![i] = "acquire"]
    /\ UNCHANGED <<variant, argv, symbols, history, results, lock, info, exc, stdout, mainpc, mi,
                   exitStatus, lockOrder>>

\* a lock that never blocks
CanAcquire_Always(i) == TRUE

\* lock.acquire() succeeds only on a free lock
CanAcquire(i) == lock = 0

\* with lock:  (entry)
Acquire(i) ==
    /\ pc[i] = "acquire"
    /\ CanAcquire(i)
    /\ lock' = i
    /\ lockOrder' = Append(lockOrder, i)
    /\ pc' = [pc EXCEPT ![i] = "write"]
    /\ UNCHANGED <<variant, argv, symbols, history, results, info, exc, stderr, stdout, mainpc, mi,
                   exitStatus>>

\* a handler that stores the metadata whenever it was fetched, also when
\* the dividend step failed afterwards
WorkerValue_KeepsFetchedInfo(i) ==
    IF exc[i] = NoExc \/ info[i] # <<>> THEN info[i] ELSE ErrorObject(variant, exc[i])

\* the value worker i stores: its info on the success path, the error
\* object of its handler on a failure path
WorkerValue(i) ==
    IF exc[i] = NoExc THEN info[i] ELSE ErrorObject(variant, exc[i])

\* a failure path that rebinds results to a fresh dict holding only the error
Write_ErrorClobbers(i) ==
    /\ pc[i] = "write"
    /\ results' = IF exc[i] = NoExc
                  THEN DictSet(results, symbols[i], JDict(WorkerValue(i)))
                  ELSE << <<symbols[i], JDict(WorkerValue(i))>> >>
    /\ pc' = [pc EXCEPT ![i] = "release"]
    /\ UNCHANGED <<variant, argv, symbols, history, lock, info, exc, stderr, stdout, mainpc,
                   mi, exitStatus, lockOrder>>

\* results[symbol] = info   /   results[symbol] = {"error": ...}
Write(i) ==
    /\ pc[i] = "write"
    /\ results' = DictSet(results, symbols[i], JDict(WorkerValue(i)))
    /\ pc' = [pc EXCEPT ![i] = "release"]
    /\ UNCHANGED <<variant, argv, symbols, history, lock, info, exc, stderr, stdout, mainpc, mi,
                   exitStatus, lockOrder>>

\* a critical section left without releasing the lock
Release_KeepsLock(i) ==
    /\ pc[i] = "release"
    /\ lock' = lock
    /\ pc' = [pc EXCEPT ![i] = "done"]
    /\ UNCHANGED <<variant, argv, symbols, history, results, info, exc, stderr, stdout,
                   mainpc, mi, exitStatus, lockOrder>>

\* with lock:  (exit)
Release(i) ==
    /\ pc[i] = "release"
    /\ lock' = 0
    /\ pc' = [pc EXCEPT ![i] = "done"]
    /\ UNCHANGED <<variant, argv, symbols, history, results, info, exc, stderr, stdout, mainpc, mi,
                   exitStatus, lockOrder>>

Worker(i) ==
    FetchInfo(i) \/ FetchDividends(i) \/ LogError(i) \/ Acquire(i) \/ Write(i) \/ Release(i)

\* ------------------------------------------------------------- main flow
\* a main flow that starts waiting right after starting one thread
StartThread_ThenWait ==
    /\ mainpc = "start"
    /\ pc' = [pc EXCEPT ![mi] = "fetch"]
    /\ mainpc' = "join"
    /\ mi' = 1
    /\ UNCHANGED <<variant, argv, symbols, history, results, lock, info, exc, stderr, stdout,
                   exitStatus, lockOrder>>

\* for t in threads: t.start()
StartThread ==
    /\ mainpc = "start"
    /\ pc' = [pc EXCEPT ![mi] = "fetch"]
    /\ IF mi = Len(symbols)
       THEN mainpc' = "join" /\ mi' = 1
       ELSE mainpc' = mainpc /\ mi' = mi + 1
    /\ UNCHANGED <<variant, argv, symbols, history, results, lock, info, exc, stderr, stdout,
                   exitStatus, lockOrder>>

\* a join that returns at once
JoinReady_NoWait(i) == TRUE

\* a join with a timeout: it also returns when the thread is stuck in a call
JoinReady_GivesUp(i) == pc[i] \in {"done", "crashed", "hung"}

\* t.join() returns once the thread has ended
JoinReady(i) == pc[i] \in {"done", "crashed"}

\* for t in threads: t.join()
JoinThread ==
    /\ mainpc = "join"
    /\ JoinReady(mi)
    /\ IF mi = Len(symbols)
       THEN mainpc' = "print" /\ mi' = 1
       ELSE mainpc' = mainpc /\ mi' = mi + 1
    /\ UNCHANGED <<variant, argv, symbols, history, results, lock, pc, info, exc, stderr, stdout,
                   exitStatus, lockOrder>>

\* print(json.dumps(results)), then the script ends with status 0
PrintResults ==
    /\ mainpc = "print"
    /\ stdout' = Append(stdout, JsonDumps(JDict(results)))
    /\ exitStatus' = 0
    /\ mainpc' = "done"
    /\ UNCHANGED <<variant, argv, symbols, history, results, lock, pc, info, exc, stderr, mi,
                   lockOrder>>

Main == StartThread \/ JoinThread \/ PrintResults

Next ==
    \/ StartThread
    \/ JoinThread
    \/ PrintResults
    \/ \E i \in Threads : FetchInfo(i)
    \/ \E i \in Threads : FetchDividends(i)
    \/ \E i \in Threads : LogError(i)
    \/ \E i \in Threads : Acquire(i)
    \/ \E i \in Threads : Write(i)
    \/ \E i \in Threads : Release(i)

Spec == Init /\ [][Next]_vars

\* every started thread and the main flow keep being scheduled
FairSpec ==
    /\ Spec
    /\ WF_vars(Main)
    /\ \A i \in 1..MaxThreads : WF_vars(i \in Threads /\ Worker(i))

\* ======================================================================
\* Properties
\* ======================================================================
WorkersOf(k) == {i \in Threads : symbols[i] = k}
AllDone == \A i \in Threads : pc[i] = "done"
Failed(i) == exc[i] # NoExc
HasKey(dict, k) == k \in DictKeys(dict)
KeyCount(dict, k) == Cardinality({j \in DOMAIN dict : dict[j][1] = k})
Min2(a, b) == IF a < b THEN a ELSE b

\* the last worker of symbol k that acquired the lock (0 when none did)
LastWriter(k) ==
    LET pos == {j \in DOMAIN lockOrder : symbols[lockOrder[j]] = k}
    IN  IF pos = {} THEN 0
        ELSE lockOrder[CHOOSE j \in pos : \A j2 \in pos : j2 <= j]

\* x is {"error": <string>} and nothing else
IsErrorObject(x) ==
    /\ x.t = "dict"
    /\ Len(x.d) = 1
    /\ x.d[1][1] = "error"
    /\ x.d[1][2].t = "str"

\* C1: once every worker has finished, the keys of results are exactly the
\* input symbols, each present once: none missing, none extra, none twice.
C1_KeysAreInputSymbols ==
    AllDone =>
        /\ DictKeys(results) = Range(symbols)
        /\ Len(results) = Cardinality(Range(symbols))
        /\ (mainpc = "done" => stdout = <<JsonDumps(JDict(results))>>)

C1_Witness ==
    /\ mainpc = "done"
    /\ Len(symbols) = 2
    /\ symbols[1] # symbols[2]
    /\ DictKeys(results) = {symbols[1], symbols[2]}

\* C2: in the final results, the value of a symbol whose fetches all
\* succeeded has no "error" key, and the value of a symbol whose fetches all
\* failed is exactly {"error": s} with s a non-empty string.
C2_SuccessOrNonEmptyError ==
    AllDone =>
        \A k \in Range(symbols) :
            /\ HasKey(results, k)
            /\ (\A i \in WorkersOf(k) : ~Failed(i))
                  => ~HasKey(DictGet(results, k).d, "error")
            /\ (\A i \in WorkersOf(k) : Failed(i))
                  => /\ IsErrorObject(DictGet(results, k))
                     /\ DictGet(results, k).d[1][2].s # ""

\* C3: when every fetch of one symbol fails and every fetch of the other
\* symbols succeeds, the failing symbol maps to an error object and every
\* other symbol maps to the record one of its own workers fetched; and any
\* worker that alone serves its symbol and is done has stored its own
\* outcome, whatever the other workers did.
C3_FailureIsolation ==
    /\ \A f \in Range(symbols) :
          (/\ AllDone
           /\ \A i \in WorkersOf(f) : Failed(i)
           /\ \A i \in Threads \ WorkersOf(f) : ~Failed(i))
          => /\ HasKey(results, f)
             /\ IsErrorObject(DictGet(results, f))
             /\ \A i \in Threads \ WorkersOf(f) :
                   /\ HasKey(results, symbols[i])
                   /\ ~HasKey(DictGet(results, symbols[i]).d, "error")
                   /\ \E j \in WorkersOf(symbols[i]) :
                         DictGet(results, symbols[i]) = JDict(info[j])
    /\ \A i \in Threads :
          (pc[i] = "done" /\ WorkersOf(symbols[i]) = {i})
          => /\ HasKey(results, symbols[i])
             /\ DictGet(results, symbols[i]) = JDict(WorkerValue(i))

C3_Witness ==
    /\ AllDone
    /\ Len(symbols) = 2
    /\ symbols[1] # symbols[2]
    /\ Failed(1)
    /\ ~Failed(2)
    /\ lockOrder = <<2, 1>>
    /\ IsErrorObject(DictGet(results, symbols[1]))

\* C4: once all workers of a symbol are done the symbol has exactly one
\* key, whose value is the outcome of the worker of that symbol that
\* acquired the lock last; and no worker crashes.
C4_LastWriterWins ==
    /\ \A i \in Threads : pc[i] # "crashed"
    /\ \A k \in Range(symbols) :
          (\A i \in WorkersOf(k) : pc[i] = "done")
          => /\ KeyCount(results, k) = 1
             /\ LastWriter(k) \in WorkersOf(k)
             /\ DictGet(results, k) = JDict(WorkerValue(LastWriter(k)))

C4_Witness ==
    /\ AllDone
    /\ Len(symbols) = 2
    /\ symbols[1] = symbols[2]
    /\ Failed(1)
    /\ ~Failed(2)
    /\ lockOrder = <<1, 2>>
    /\ ~HasKey(DictGet(results, symbols[1]).d, "error")

\* C5: no worker ends with an uncaught exception: a worker in which an
\* exception was raised logs it and stores an error object, so that once it
\* is done, and no later worker of the same symbol overwrote it, its
\* symbol maps to an error object; the process never ends with a failure status.
C5_FailuresBecomeData ==
    /\ \A i \in Threads : pc[i] # "crashed"
    /\ exitStatus \in {-1, 0}
    /\ \A i \in Threads :
          (pc[i] = "done" /\ Failed(i) /\ LastWriter(symbols[i]) = i)
          => /\ HasKey(results, symbols[i])
             /\ IsErrorObject(DictGet(results, symbols[i]))

C5_Witness ==
    /\ mainpc = "done"
    /\ exitStatus = 0
    /\ Len(symbols) = 2
    /\ \A i \in Threads : Failed(i)
    /\ exc[1].cls = "Exception"
    /\ exc[2].cls = "HTTPError"
    /\ \A k \in Range(symbols) : IsErrorObject(DictGet(results, k))

SomeHung == \E i \in Threads : pc[i] = "hung"
Emitted ==
    /\ mainpc = "done"
    /\ Len(stdout) = 1
    /\ exitStatus = 0
    /\ AllDone

\* C6: under fair scheduling, unless some provider call never returns, the
\* run reaches the state in which every worker is done, the JSON text has
\* been written exactly once and the exit status is 0; the text is never
\* written twice.
C6_EventuallyEmits ==
    /\ ([]~SomeHung) => <>Emitted
    /\ [](Len(stdout) <= 1)

C6_Witness ==
    /\ Emitted
    /\ Len(symbols) = 2
    /\ \A i \in Threads : Failed(i)

\* C7: whenever the main flow is past the joins (about to read results, or
\* having printed them), every worker has completed its write and left the
\* critical section.
C7_ReadAfterAllJoined ==
    (mainpc \in {"print", "done"} \/ stdout # <<>>) =>
        /\ AllDone
        /\ lock = 0
        /\ Len(lockOrder) = Len(symbols)

C7_Witness ==
    /\ mainpc = "done"
    /\ stdout # <<>>
    /\ Len(symbols) = 2
    /\ lockOrder = <<2, 1>>

InCriticalSection == {i \in Threads : pc[i] \in {"write", "release"}}
Mutex ==
    /\ Cardinality(InCriticalSection) <= 1
    /\ \A i \in InCriticalSection : lock = i

\* C8: at most one worker is inside the critical section, it is the holder
\* of the lock, and every step that changes results is taken by the worker
\* that holds the lock before and after the step.
C8_WritesUnderLock ==
    [][/\ Mutex
       /\ Mutex'
       /\ (results' # results =>
              \E i \in Threads : /\ lock = i
                                 /\ lock' = i
                                 /\ pc[i] = "write"
                                 /\ pc'[i] = "release")]_vars

C8_Witness ==
    /\ Len(symbols) = 2
    /\ lock = 1
    /\ pc[1] = "release"
    /\ pc[2] = "acquire"
    /\ Failed(1)
    /\ ~Failed(2)

\* the workers that got through the dividend step of the extended variant
PastDividends(i) ==
    /\ variant = "extended"
    /\ ~Failed(i)
    /\ pc[i] \in {"acquire", "write", "release", "done"}

\* C9: in the extended variant a successful worker whose dividend history
\* has n entries holds a last_4_dividends of exactly min(4, n) items, the
\* last min(4, n) entries of the history in the history's order, each a
\* date of ten characters with its amount.
C9_LastFourDividends ==
    \A i \in Threads :
        PastDividends(i) =>
            /\ HasKey(info[i], "last_4_dividends")
            /\ LET h == history[i]
                   d == DictGet(info[i], "last_4_dividends").d
                   m == Min2(4, Len(h))
               IN  /\ Len(d) = m
                   /\ Len(d) <= 4
                   /\ \A j \in 1..m :
                         /\ d[j][1] = Strftime(h[Len(h) - m + j].date)
                         /\ Len(d[j][1]) = 10
                         /\ d[j][2] = JNum(h[Len(h) - m + j].amount)

C9_Witness ==
    \E i \in Threads :
        /\ pc[i] = "done"
        /\ PastDividends(i)
        /\ Len(history[i]) > 4
        /\ Len(DictGet(info[i], "last_4_dividends").d) = 4
        /\ HasKey(results, symbols[i])
        /\ DictGet(results, symbols[i]) = JDict(info[i])

NotEmitted ==
    /\ stdout = <<>>
    /\ mainpc \in {"start", "join"}
    /\ exitStatus = -1

\* C11: a worker whose provider call never returns stays in that call for
\* ever, and as long as some worker is in that state the main flow has not
\* passed the joins, nothing has been printed and the process has not
\* ended, whatever the other workers have done.
C11_HungCallBlocksOutput ==
    [][/\ SomeHung => NotEmitted
       /\ SomeHung' => NotEmitted'
       /\ \A i \in Threads : pc[i] = "hung" => pc'[i] = "hung"]_vars

C11_Witness ==
    /\ Len(symbols) = 2
    /\ pc[1] = "done"
    /\ pc[2] = "hung"
    /\ HasKey(results, symbols[1])
    /\ mainpc = "join"
    /\ mi = 2
    /\ stdout = <<>>

\* the workers whose handler has written its diagnostic block
Logged(i) == Failed(i) /\ pc[i] \in {"acquire", "write", "release", "done"}

\* the number of blocks of stderr whose first line is l
BlockCount(l) == Cardinality({j \in DOMAIN stderr : stderr[j].line = l})

\* the first line of worker i's block when the tag is chosen by the class
\* of the exception alone
TaggedByClass(i) ==
    (IF exc[i].cls = "HTTPError" THEN "[HTTP ERROR]" ELSE "[ERROR]")
        \o " Symbol " \o symbols[i] \o ": " \o Str(exc[i]) \o "\n"

\* the first line of worker i's block when only the extended variant
\* uses the [HTTP ERROR] tag
TaggedByVariant(i) ==
    (IF variant = "extended" /\ exc[i].cls = "HTTPError" THEN "[HTTP ERROR]" ELSE "[ERROR]")
        \o " Symbol " \o symbols[i] \o ": " \o Str(exc[i]) \o "\n"

\* C12 as claimed: stderr holds one block per failed worker and none for
\* a successful one, tagged [HTTP ERROR] for an HTTPError and [ERROR] for
\* any other exception, with the symbol and the message, written before
\* the worker stores its error entry.
C12_TagByClassInBothVariants ==
    /\ Len(stderr) = Cardinality({i \in Threads : Logged(i)})
    /\ \A i \in Threads :
          /\ Logged(i) =>
                BlockCount(TaggedByClass(i)) =
                    Cardinality({j \in Threads : Logged(j) /\ TaggedByClass(j) = TaggedByClass(i)})
          /\ (Failed(i) /\ pc[i] = "log") => \A j \in DOMAIN lockOrder : lockOrder[j] # i

\* C12 as amended: the same, with the tag [HTTP ERROR] for an HTTPError in
\* the extended variant only; the basic variant tags every block [ERROR].
C12_DiagnosticBlocks ==
    /\ Len(stderr) = Cardinality({i \in Threads : Logged(i)})
    /\ \A i \in Threads :
          /\ Logged(i) =>
                /\ BlockCount(TaggedByVariant(i)) =
                      Cardinality({j \in Threads :
                                      Logged(j) /\ TaggedByVariant(j) = TaggedByVariant(i)})
                /\ \E j \in DOMAIN stderr :
                      stderr[j] = [line |-> TaggedByVariant(i), traceback |-> exc[i].cls]
          /\ (Failed(i) /\ pc[i] = "log") => \A j \in DOMAIN lockOrder : lockOrder[j] # i
          /\ (\E j \in DOMAIN lockOrder : lockOrder[j] = i) /\ Failed(i) => Logged(i)

C12_Witness ==
    /\ AllDone
    /\ Len(symbols) = 2
    /\ exc[1].cls = "HTTPError"
    /\ ~Failed(2)
    /\ Len(stderr) = 1
    /\ stderr[1].line =
          (IF variant = "extended" THEN "[HTTP ERROR]" ELSE "[ERROR]")
             \o " Symbol " \o symbols[1] \o ": 404 Not Found\n"
    /\ variant = "basic"

\* the symbols of the workers that have stored their value, in the order
\* in which these workers acquired the lock, each symbol at its first place
RECURSIVE AcquiredKeys(_, _)
AcquiredKeys(j, acc) ==
    IF j > Len(lockOrder) THEN acc
    ELSE LET w == lockOrder[j]
         IN  IF pc[w] \in {"release", "done"} /\ symbols[w] \notin Range(acc)
             THEN AcquiredKeys(j + 1, Append(acc, symbols[w]))
             ELSE AcquiredKeys(j + 1, acc)

\* the text of a JSON object with the given keys in the given order
RECURSIVE ObjectText(_, _)
ObjectText(keys, j) ==
    IF j > Len(keys) THEN "}"
    ELSE (IF j = 1 THEN "" ELSE ", ")
         \o "\"" \o keys[j] \o "\": " \o JsonDumps(DictGet(results, keys[j]))
         \o ObjectText(keys, j + 1)

\* C13: the keys of results stand in the order in which the workers first
\* acquired the lock for them, and the printed object lists its keys in
\* that order, which need not be the order of the input.
C13_KeyOrderIsLockOrder ==
    /\ DictKeySeq(results) = AcquiredKeys(1, <<>>)
    /\ mainpc = "done" => stdout = <<"{" \o ObjectText(AcquiredKeys(1, <<>>), 1)>>

C13_Witness ==
    /\ mainpc = "done"
    /\ symbols = <<"A", "">>
    /\ lockOrder = <<2, 1>>
    /\ DictKeySeq(results) = <<"", "A">>
    /\ exc = <<NoExc, [cls |-> "Exception", args |-> <<"No data found">>]>>
    /\ variant = "basic"
    /\ stdout = <<"{\"\": {\"error\": \"No data found\"}, "
                   \o "\"A\": {\"symbol\": \"A\", \"currency\": \"USD\"}}">>

\* worker i got its metadata and then failed in the dividend step
DividendsFailed(i) == variant = "extended" /\ Failed(i) /\ info[i] # <<>>

\* the number of times worker i acquired the lock
Acquisitions(i) == Cardinality({j \in DOMAIN lockOrder : lockOrder[j] = i})

\* C14: in the extended variant a worker whose metadata request succeeded
\* and whose dividend step failed enters the critical section at most once
\* and no entry of results ever is its metadata record; once it has
\* stored its value, and no later worker of the symbol replaced it, the
\* entry of its symbol is an error object.
C14_NoPartialMetadata ==
    \A i \in Threads :
        DividendsFailed(i) =>
            /\ Acquisitions(i) <= 1
            /\ \A j \in DOMAIN results : results[j][2] # JDict(info[i])
            /\ (pc[i] \in {"release", "done"} /\ LastWriter(symbols[i]) = i)
                  => /\ HasKey(results, symbols[i])
                     /\ IsErrorObject(DictGet(results, symbols[i]))

C14_Witness ==
    /\ AllDone
    /\ Len(symbols) = 1
    /\ DividendsFailed(1)
    /\ info[1] = InfoRecord(symbols[1])
    /\ exc[1].cls = "HTTPError"
    /\ results = << <<symbols[1], JDict(<< <<"error", JStr("HTTPError: 404 Not Found")>> >>)>> >>

\* C15: there is one thread per entry of the input, bound to that entry,
\* duplicates included; while the main flow is starting threads exactly
\* the threads before its index are started, and when it waits or has
\* gone further every thread has been started.
C15_AllStartedBeforeJoin ==
    /\ Len(pc) = Len(symbols)
    /\ Len(symbols) = NumCommas(argv) + 1
    /\ mainpc = "start" => \A i \in Threads : (pc[i] = "created") <=> (i >= mi)
    /\ mainpc # "start" => \A i \in Threads : pc[i] # "created"

C15_Witness ==
    /\ Len(symbols) = 2
    /\ symbols[1] = symbols[2]
    /\ mainpc = "join"
    /\ mi = 1
    /\ pc = <<"fetch", "fetch">>

\* C16 as claimed: for the empty argument the printed object is either
\* {"": {"error": ...}} or the empty object.
C16_ErrorOrEmptyObject ==
    (argv = <<>> /\ mainpc = "done") =>
        \/ results = <<>>
        \/ /\ DictKeySeq(results) = <<"">>
           /\ IsErrorObject(results[1][2])

\* C16 as amended: the empty argument is split into the single symbol "",
\* one worker runs for it, and once the run has printed, the object has
\* exactly the key "" with that worker's outcome: an error object when
\* its fetch raised, its metadata record otherwise, never the empty object.
C16_EmptyArgument ==
    argv = <<>> =>
        /\ symbols = <<"">>
        /\ Len(pc) = 1
        /\ mainpc = "done" =>
              /\ pc[1] = "done"
              /\ results = << <<"", JDict(WorkerValue(1))>> >>
              /\ Failed(1) <=> IsErrorObject(results[1][2])
              /\ ~Failed(1) => results[1][2].d[1] = <<"symbol", JStr("")>>
              /\ stdout = <<"{\"\": " \o JsonDumps(results[1][2]) \o "}">>

C16_Witness ==
    /\ argv = <<>>
    /\ mainpc = "done"
    /\ ~Failed(1)
    /\ variant = "basic"
    /\ stdout = <<"{\"\": {\"symbol\": \"\", \"currency\": \"USD\"}}">>

\* the positions at which a worker is outside `with lock`
OutsideLock == {"created", "fetch", "dividends", "hung", "log", "acquire", "done", "crashed"}

\* C17: a worker holds the lock only between its acquire and its release,
\* so never during a provider call, while stuck in one, or after it is
\* done; the lock is free exactly when no worker is in the critical
\* section; the holder can always take its next step, a worker waiting at
\* a free lock can acquire it, and unless the run is over or waits for a
\* stuck worker some step is possible.
C17_LockNeverHeldAcrossCalls ==
    /\ \A i \in Threads : pc[i] \in OutsideLock => lock # i
    /\ (lock = 0) <=> (InCriticalSection = {})
    /\ lock # 0 =>
          /\ lock \in Threads
          /\ pc[lock] \in {"write", "release"}
          /\ ENABLED (Write(lock) \/ Release(lock))
    /\ \A i \in Threads : (pc[i] = "acquire" /\ lock = 0) => ENABLED Acquire(i)
    /\ (mainpc # "done" /\ ~SomeHung) => ENABLED Next

C17_Witness ==
    /\ Len(symbols) = 2
    /\ pc[1] = "hung"
    /\ pc[2] = "done"
    /\ Failed(2)
    /\ lockOrder = <<2>>
    /\ lock = 0
    /\ HasKey(results, symbols[2])

\* C18: every step that changes results is the one write of a worker
\* inside the critical section; it sets the entry of that worker's own
\* symbol and leaves every other entry, and the order of the keys already
\* there, as they were; keys are input symbols and are never removed; a
\* worker that is done acquired the lock, and so wrote, exactly once.
C18_OneWriteOwnKey ==
    [][/\ DictKeys(results') \subseteq Range(symbols)
       /\ DictKeys(results) \subseteq DictKeys(results')
       /\ (results' # results =>
              \E i \in Threads :
                 /\ pc[i] = "write"
                 /\ pc'[i] = "release"
                 /\ HasKey(results', symbols[i])
                 /\ DictGet(results', symbols[i]) = JDict(WorkerValue(i))
                 /\ \A k \in DictKeys(results) \ {symbols[i]} :
                       DictGet(results', k) = DictGet(results, k)
                 /\ SubSeq(DictKeySeq(results'), 1, Len(results)) = DictKeySeq(results))
       /\ \A i \in Threads :
             /\ (pc[i] = "write" /\ pc'[i] = "release") =>
                    /\ HasKey(results', symbols[i])
                    /\ DictGet(results', symbols[i]) = JDict(WorkerValue(i))
             /\ pc'[i] = "done" => Acquisitions(i)' = 1]_vars

C18_Witness ==
    /\ Len(symbols) = 2
    /\ symbols[1] # symbols[2]
    /\ pc = <<"done", "done">>
    /\ lockOrder = <<2, 1>>
    /\ Failed(1)
    /\ ~Failed(2)
    /\ Len(results) = 2
    /\ results[1] = <<symbols[2], JDict(info[2])>>

\* what the basic script stores for worker i, given the outcome of its
\* metadata request: the record, or {"error": str(e)}
BasicValue(i) ==
    IF ~Failed(i) THEN InfoRecord(symbols[i])
    ELSE << <<"error", JStr(IF exc[i].args = <<>> THEN "" ELSE exc[i].args[1])>> >>

\* the mapping the basic script ends with when the workers store their
\* values in the order of lockOrder
RECURSIVE BasicResults(_, _)
BasicResults(j, acc) ==
    IF j > Len(lockOrder) THEN acc
    ELSE BasicResults(j + 1,
             IF HasKey(acc, symbols[lockOrder[j]])
             THEN [p \in DOMAIN acc |->
                     IF acc[p][1] = symbols[lockOrder[j]]
                     THEN <<acc[p][1], JDict(BasicValue(lockOrder[j]))>>
                     ELSE acc[p]]
             ELSE Append(acc, <<symbols[lockOrder[j]], JDict(BasicValue(lockOrder[j]))>>))

\* no dividend step failed: every failure is one of the metadata request
NoDividendFailure == \A i \in Threads : Failed(i) => info[i] = <<>>

NotDividendsItem(item) == item[1] # "last_4_dividends"

\* C19: for the same symbols, the same outcome of each metadata request,
\* the same order of the writes and no failing dividend step, a finished
\* run of the basic script holds exactly the basic mapping, and a finished
\* run of the extended script holds the same keys in the same order, an
\* error object exactly where the basic mapping has one, the basic record
\* plus the one item last_4_dividends on success, and the basic message,
\* prefixed with "HTTPError: " exactly for an HTTPError, on failure.
C19_VariantsAgree ==
    (AllDone /\ NoDividendFailure) =>
        LET basic == BasicResults(1, <<>>)
        IN  /\ variant = "basic" => results = basic
            /\ variant = "extended" =>
                  /\ DictKeySeq(results) = DictKeySeq(basic)
                  /\ \A j \in DOMAIN basic :
                        LET b == basic[j][2]
                            x == results[j][2]
                            w == LastWriter(basic[j][1])
                        IN  /\ IsErrorObject(b) <=> IsErrorObject(x)
                            /\ ~IsErrorObject(b) =>
                                  /\ SelectSeq(x.d, NotDividendsItem) = b.d
                                  /\ Len(x.d) = Len(b.d) + 1
                                  /\ HasKey(x.d, "last_4_dividends")
                            /\ IsErrorObject(b) =>
                                  x.d[1][2].s =
                                     IF exc[w].cls = "HTTPError"
                                     THEN "HTTPError: " \o b.d[1][2].s
                                     ELSE b.d[1][2].s

C19_Witness ==
    /\ variant = "extended"
    /\ AllDone
    /\ NoDividendFailure
    /\ Len(symbols) = 2
    /\ symbols[1] # symbols[2]
    /\ exc[1].cls = "HTTPError"
    /\ ~Failed(2)
    /\ Len(history[2]) > 4
    /\ BasicResults(1, <<>>) # results
    /\ DictKeySeq(BasicResults(1, <<>>)) = <<symbols[2], symbols[1]>>

====
